---- MODULE Spec2Model ----
(***************************************************************************)
(* The transfer-tokens program (task4/programs/transfer-tokens) and the    *)
(* demo client (task4/src/main.rs), over a model of the ledger they call.  *)
(*                                                                         *)
(* Amounts are u64.  TLC's integers are narrower than 64 bits, so a u64 is *)
(* kept as its little-endian base-256 digits with no leading zero digit    *)
(* (zero is the empty sequence): equality of values is equality of         *)
(* sequences, and reduction modulo 2^64 keeps the low eight digits.        *)
(***************************************************************************)
EXTENDS Integers, Sequences, FiniteSets, TLC

\* ------------------------------------------------------------------ u64
LimbBase == 256
U64Limbs == 8

Limb(s, i) == IF i <= Len(s) THEN s[i] ELSE 0

RECURSIVE Norm(_)
Norm(s) ==
    IF s = <<>> THEN <<>>
    ELSE IF s[Len(s)] = 0 THEN Norm(SubSeq(s, 1, Len(s) - 1))
    ELSE s

RECURSIVE ToBig(_)
ToBig(n) == IF n = 0 THEN <<>> ELSE <<n % LimbBase>> \o ToBig(n \div LimbBase)

RECURSIVE AddFrom(_, _, _, _)
AddFrom(a, b, i, carry) ==
    IF i > Len(a) /\ i > Len(b)
    THEN (IF carry = 0 THEN <<>> ELSE <<carry>>)
    ELSE LET t == Limb(a, i) + Limb(b, i) + carry
         IN  <<t % LimbBase>> \o AddFrom(a, b, i + 1, t \div LimbBase)

BigAdd(a, b) == Norm(AddFrom(a, b, 1, 0))

RECURSIVE SubFrom(_, _, _, _)
SubFrom(a, b, i, borrow) ==
    IF i > Len(a) THEN <<>>
    ELSE LET t == Limb(a, i) - Limb(b, i) - borrow
         IN  IF t < 0
             THEN <<t + LimbBase>> \o SubFrom(a, b, i + 1, 1)
             ELSE <<t>> \o SubFrom(a, b, i + 1, 0)

RECURSIVE LessFrom(_, _, _)
LessFrom(a, b, i) ==
    IF i = 0 THEN FALSE
    ELSE IF a[i] # b[i] THEN a[i] < b[i]
    ELSE LessFrom(a, b, i - 1)

BigLess(a, b) ==
    IF Len(a) # Len(b) THEN Len(a) < Len(b) ELSE LessFrom(a, b, Len(a))

\* a - b for b <= a
BigSub(a, b) == Norm(SubFrom(a, b, 1, 0))

RECURSIVE MulSmallFrom(_, _, _, _)
MulSmallFrom(a, k, i, carry) ==
    IF i > Len(a)
    THEN (IF carry = 0 THEN <<>> ELSE <<carry>>)
    ELSE LET t == a[i] * k + carry
         IN  <<t % LimbBase>> \o MulSmallFrom(a, k, i + 1, t \div LimbBase)

MulSmall(a, k) == Norm(MulSmallFrom(a, k, 1, 0))

RECURSIVE MulFrom(_, _, _)
MulFrom(a, b, i) ==
    IF i > Len(b) THEN <<>>
    ELSE BigAdd(MulSmall(a, b[i]), <<0>> \o MulFrom(a, b, i + 1))

\* the product over the integers
BigMul(a, b) == Norm(MulFrom(a, b, 1))

\* 10^d over the integers
RECURSIVE Pow10(_)
Pow10(d) == IF d = 0 THEN <<1>> ELSE MulSmall(Pow10(d - 1), 10)

FitsU64(x) == Len(x) <= U64Limbs

\* x mod 2^64
Wrap64(x) == IF FitsU64(x) THEN x ELSE Norm(SubSeq(x, 1, U64Limbs))

Zero == <<>>

\* what `amount * 10u64.pow(decimals as u32)` evaluates to: the value reduced
\* modulo 2^64, and whether the power or the product left the u64 range (a
\* build with overflow checks panics there, a build without them wraps)
scaled_amount(amount, decimals) ==
    LET p    == Pow10(decimals)
        prod == BigMul(amount, Wrap64(p))
    IN  [overflow |-> ~FitsU64(p) \/ ~FitsU64(prod),
         value    |-> Wrap64(prod)]

\* --------------------------------------------------------------- ledger
Keys == {"K1", "K2"}
Mints == {"M1", "M2"}
NoKey == "none"

\* the associated token account of (wallet, mint), and one token account
\* that is not at an associated address
get_associated_token_address(wallet, mint) == <<"ata", wallet, mint>>
AuxAddr == <<"aux", "K1", "M1">>
TokenAddrs == {get_associated_token_address(k, m) : k \in Keys, m \in Mints}
                  \cup {AuxAddr}

UninitAccount ==
    [init |-> FALSE, mint |-> NoKey, owner |-> NoKey, amount |-> Zero,
     delegate |-> NoKey, delegated_amount |-> Zero]
UninitMint ==
    [allocated |-> FALSE, init |-> FALSE, decimals |-> 0, supply |-> Zero,
     mint_authority |-> NoKey, freeze_authority |-> NoKey]

\* lamports a new token account must hold, in units of one account's rent
AtaRent == 1

Done(L) == [err |-> "Ok", L |-> L]
Fail(e, L) == [err |-> e, L |-> L]

\* authority validation shared by transfer and burn: the owner, or the
\* delegate within its allowance; the authority must have signed
AuthorityError(src, authority, signers, amount) ==
    IF src.delegate # NoKey /\ src.delegate = authority
    THEN IF authority \notin signers THEN "MissingRequiredSignature"
         ELSE IF BigLess(src.delegated_amount, amount) THEN "InsufficientFunds"
         ELSE "Ok"
    ELSE IF src.owner # authority THEN "OwnerMismatch"
         ELSE IF authority \notin signers THEN "MissingRequiredSignature"
         ELSE "Ok"

\* the source account after `amount` leaves it on `authority`'s word
Debit(src, authority, amount) ==
    LET byDelegate == src.delegate # NoKey /\ src.delegate = authority
        left       == BigSub(src.delegated_amount, amount)
    IN  [src EXCEPT !.amount = BigSub(src.amount, amount),
                    !.delegated_amount = IF byDelegate THEN left ELSE @,
                    !.delegate = IF byDelegate /\ left = Zero THEN NoKey ELSE @]

\* the token program's MintTo
mint_to(L, mint, to, authority, signers, amount) ==
    LET dst == L.accts[to]
        m   == L.mints[mint]
    IN  IF ~dst.init \/ ~m.init THEN Fail("UninitializedAccount", L)
        ELSE IF dst.mint # mint THEN Fail("MintMismatch", L)
        ELSE IF m.mint_authority = NoKey THEN Fail("FixedSupply", L)
        ELSE IF m.mint_authority # authority THEN Fail("OwnerMismatch", L)
        ELSE IF authority \notin signers THEN Fail("MissingRequiredSignature", L)
        ELSE IF amount = Zero THEN Done(L)
        ELSE IF ~FitsU64(BigAdd(dst.amount, amount))
                \/ ~FitsU64(BigAdd(m.supply, amount)) THEN Fail("Overflow", L)
        ELSE Done([L EXCEPT
                 !.accts[to].amount = BigAdd(dst.amount, amount),
                 !.mints[mint].supply = BigAdd(m.supply, amount)])

\* the token program's Transfer (checked: with the mint and its decimals)
process_transfer(L, from, to, authority, signers, amount, checked, mint, decimals) ==
    LET src == L.accts[from]
        dst == L.accts[to]
        aerr == AuthorityError(src, authority, signers, amount)
    IN  IF ~src.init \/ ~dst.init THEN Fail("UninitializedAccount", L)
        ELSE IF BigLess(src.amount, amount) THEN Fail("InsufficientFunds", L)
        ELSE IF src.mint # dst.mint THEN Fail("MintMismatch", L)
        ELSE IF checked /\ (src.mint # mint \/ ~L.mints[mint].init)
             THEN Fail("MintMismatch", L)
        ELSE IF checked /\ L.mints[mint].decimals # decimals
             THEN Fail("MintDecimalsMismatch", L)
        ELSE IF aerr # "Ok" THEN Fail(aerr, L)
        ELSE IF from = to \/ amount = Zero THEN Done(L)
        ELSE IF ~FitsU64(BigAdd(dst.amount, amount)) THEN Fail("Overflow", L)
        ELSE Done([L EXCEPT
                 !.accts[from] = Debit(src, authority, amount),
                 !.accts[to].amount = BigAdd(dst.amount, amount)])

transfer(L, from, to, authority, signers, amount) ==
    process_transfer(L, from, to, authority, signers, amount, FALSE, NoKey, 0)

transfer_checked(L, from, mint, to, authority, signers, amount, decimals) ==
    process_transfer(L, from, to, authority, signers, amount, TRUE, mint, decimals)

\* the token program's Burn
burn(L, mint, from, authority, signers, amount) ==
    LET src == L.accts[from]
        m   == L.mints[mint]
        aerr == AuthorityError(src, authority, signers, amount)
    IN  IF ~src.init \/ ~m.init THEN Fail("UninitializedAccount", L)
        ELSE IF BigLess(src.amount, amount) THEN Fail("InsufficientFunds", L)
        ELSE IF src.mint # mint THEN Fail("MintMismatch", L)
        ELSE IF aerr # "Ok" THEN Fail(aerr, L)
        ELSE IF amount = Zero THEN Done(L)
        ELSE Done([L EXCEPT
                 !.accts[from] = Debit(src, authority, amount),
                 !.mints[mint].supply = BigSub(m.supply, amount)])

\* the associated token program's Create: the account at the associated
\* address of (wallet, mint), funded by the payer
create_associated_token_account(L, funding, wallet, mint, signers) ==
    LET addr == get_associated_token_address(wallet, mint)
    IN  IF L.accts[addr].init THEN Fail("IllegalOwner", L)
        ELSE IF ~L.mints[mint].init THEN Fail("InvalidMint", L)
        ELSE IF funding \notin signers THEN Fail("MissingRequiredSignature", L)
        ELSE IF L.lamports[funding] < AtaRent THEN Fail("InsufficientLamports", L)
        ELSE Done([L EXCEPT
                 !.lamports[funding] = @ - AtaRent,
                 !.accts[addr] = [UninitAccount EXCEPT
                                     !.init = TRUE, !.mint = mint, !.owner = wallet]])

\* lamports a mint account must hold (what the cluster answers to
\* get_minimum_balance_for_rent_exemption)
MintRent == 1

\* the system program's CreateAccount, for a mint account
create_account(L, from, to, rent, signers) ==
    IF from \notin signers \/ to \notin signers
    THEN Fail("MissingRequiredSignature", L)
    ELSE IF L.mints[to].allocated THEN Fail("AccountAlreadyInUse", L)
    ELSE IF L.lamports[from] < rent THEN Fail("InsufficientLamports", L)
    ELSE Done([L EXCEPT !.lamports[from] = @ - rent,
                        !.mints[to].allocated = TRUE])

\* the token program's InitializeMint2
initialize_mint2(L, mint, mint_authority, freeze_authority, decimals) ==
    IF ~L.mints[mint].allocated THEN Fail("InvalidAccountData", L)
    ELSE IF L.mints[mint].init THEN Fail("AlreadyInUse", L)
    ELSE Done([L EXCEPT !.mints[mint] =
                 [allocated |-> TRUE, init |-> TRUE, decimals |-> decimals,
                  supply |-> Zero, mint_authority |-> mint_authority,
                  freeze_authority |-> freeze_authority]])

\* ------------------------------------------- account validation (Anchor)
Ok(L, created) == [err |-> "Ok", L |-> L, created |-> created]
Reject(e, L) == [err |-> e, L |-> L, created |-> FALSE]

\* the account struct with its associated_token constraints left out
associated_token_unconstrained(L, addr, mint, authority) ==
    IF ~L.accts[addr].init THEN "AccountNotInitialized" ELSE "Ok"

\* #[account(mut, associated_token::mint = .., associated_token::authority = ..)]
associated_token(L, addr, mint, authority) ==
    IF ~L.accts[addr].init THEN "AccountNotInitialized"
    ELSE IF L.accts[addr].owner # authority THEN "ConstraintTokenOwner"
    ELSE IF addr # get_associated_token_address(authority, mint)
         THEN "ConstraintAssociated"
    ELSE "Ok"

\* #[account(init_if_needed, payer = .., associated_token::mint = ..,
\*           associated_token::authority = ..)]
init_if_needed(L, addr, mint, authority, payer) ==
    IF ~L.accts[addr].init
    THEN IF addr # get_associated_token_address(authority, mint)
         THEN Reject("InvalidSeeds", L)
         ELSE LET c == create_associated_token_account(L, payer, authority, mint, {payer})
              IN  IF c.err = "Ok" THEN Ok(c.L, TRUE) ELSE Reject(c.err, L)
    ELSE IF L.accts[addr].mint # mint THEN Reject("ConstraintTokenMint", L)
    ELSE IF L.accts[addr].owner # authority THEN Reject("ConstraintTokenOwner", L)
    ELSE IF addr # get_associated_token_address(authority, mint)
         THEN Reject("AccountNotAssociatedTokenAccount", L)
    ELSE Ok(L, FALSE)

\* Account<'info, Mint>
mint_account_error(L, mint) ==
    IF L.mints[mint].init THEN "Ok" ELSE "AccountNotInitialized"

MintToken(L, ix) ==
    IF mint_account_error(L, ix.mint_account) # "Ok"
    THEN Reject(mint_account_error(L, ix.mint_account), L)
    ELSE init_if_needed(L, ix.to_account, ix.mint_account, ix.recipient, ix.signer)

TransferTokens(L, ix) ==
    IF mint_account_error(L, ix.mint_account) # "Ok"
    THEN Reject(mint_account_error(L, ix.mint_account), L)
    ELSE IF associated_token(L, ix.from_account, ix.mint_account, ix.signer) # "Ok"
    THEN Reject(associated_token(L, ix.from_account, ix.mint_account, ix.signer), L)
    ELSE init_if_needed(L, ix.to_account, ix.mint_account, ix.recipient, ix.signer)

BurnTokens(L, ix) ==
    IF mint_account_error(L, ix.mint_account) # "Ok"
    THEN Reject(mint_account_error(L, ix.mint_account), L)
    ELSE IF associated_token(L, ix.from_account, ix.mint_account, ix.signer) # "Ok"
    THEN Reject(associated_token(L, ix.from_account, ix.mint_account, ix.signer), L)
    ELSE Ok(L, FALSE)

\* -------------------------------------------------------------- handlers
NoAddr == <<"none", "none", "none">>
NoCpi ==
    [op |-> "none", mint |-> NoKey, from |-> NoAddr, to |-> NoAddr,
     authority |-> NoKey, amount |-> Zero]

\* an invocation that account validation turned away: the handler never ran
Rejected(v) ==
    [validated |-> FALSE, verr |-> v.err, created |-> FALSE, panicked |-> FALSE,
     calls |-> 0, cpi |-> NoCpi, hostErr |-> "none", result |-> v.err,
     logs |-> <<>>, L |-> v.L]

\* the multiplication overflowed in a build that checks it
Panicked(v, logs) ==
    [validated |-> TRUE, verr |-> "Ok", created |-> v.created, panicked |-> TRUE,
     calls |-> 0, cpi |-> NoCpi, hostErr |-> "none", result |-> "Panic",
     logs |-> logs, L |-> v.L]

\* the handler with the host's error logged and dropped instead of returned
ReturnedIgnoringError(v, cpi, h, logs, success) ==
    [validated |-> TRUE, verr |-> "Ok", created |-> v.created, panicked |-> FALSE,
     calls |-> 1, cpi |-> cpi, hostErr |-> h.err, result |-> "Ok",
     logs |-> Append(logs, success), L |-> h.L]

\* the handler with a failed host call issued a second time
ReturnedAfterRetry(v, cpi, h, logs, success) ==
    [validated |-> TRUE, verr |-> "Ok", created |-> v.created, panicked |-> FALSE,
     calls |-> IF h.err = "Ok" THEN 1 ELSE 2, cpi |-> cpi, hostErr |-> h.err,
     result |-> h.err,
     logs |-> IF h.err = "Ok" THEN Append(logs, success) ELSE logs, L |-> h.L]

\* `cpi(..)?; msg!(success); Ok(())`: the host's error is returned as it is
Returned(v, cpi, h, logs, success) ==
    [validated |-> TRUE, verr |-> "Ok", created |-> v.created, panicked |-> FALSE,
     calls |-> 1, cpi |-> cpi, hostErr |-> h.err, result |-> h.err,
     logs |-> IF h.err = "Ok" THEN Append(logs, success) ELSE logs, L |-> h.L]

mint_token(L, ix, amount, checks) ==
    LET v    == MintToken(L, ix)
        logs == <<"Minting tokens to associated token account...", "Mint: {}",
                  "Token Address: {}">>
        s    == scaled_amount(amount, v.L.mints[ix.mint_account].decimals)
        h    == mint_to(v.L, ix.mint_account, ix.to_account, ix.signer,
                        {ix.signer}, s.value)
        cpi  == [op |-> "mint_to", mint |-> ix.mint_account, from |-> NoAddr,
                 to |-> ix.to_account, authority |-> ix.signer, amount |-> s.value]
    IN  IF v.err # "Ok" THEN Rejected(v)
        ELSE IF s.overflow /\ checks THEN Panicked(v, logs)
        ELSE Returned(v, cpi, h, logs, "Token minted successfully.")

transfer_tokens(L, ix, amount, checks) ==
    LET v    == TransferTokens(L, ix)
        logs == <<"Transferring tokens...", "Mint: {}", "From Token Address: {}",
                  "To Token Address: {}">>
        s    == scaled_amount(amount, v.L.mints[ix.mint_account].decimals)
        h    == transfer(v.L, ix.from_account, ix.to_account, ix.signer,
                         {ix.signer}, s.value)
        cpi  == [op |-> "transfer", mint |-> NoKey, from |-> ix.from_account,
                 to |-> ix.to_account, authority |-> ix.signer, amount |-> s.value]
    IN  IF v.err # "Ok" THEN Rejected(v)
        ELSE IF s.overflow /\ checks THEN Panicked(v, logs)
        ELSE Returned(v, cpi, h, logs, "Tokens transferred successfully.")

burn_tokens(L, ix, amount, checks) ==
    LET v    == BurnTokens(L, ix)
        logs == <<"Burning tokens...", "Mint: {}", "Token Address: {}", "Amount: {}">>
        s    == scaled_amount(amount, v.L.mints[ix.mint_account].decimals)
        h    == burn(v.L, ix.mint_account, ix.from_account, ix.signer,
                     {ix.signer}, s.value)
        cpi  == [op |-> "burn", mint |-> ix.mint_account, from |-> ix.from_account,
                 to |-> NoAddr, authority |-> ix.signer, amount |-> s.value]
    IN  IF v.err # "Ok" THEN Rejected(v)
        ELSE IF s.overflow /\ checks THEN Panicked(v, logs)
        ELSE Returned(v, cpi, h, logs, "Tokens burned successfully.")

\* ----------------------------------------------------------------- state
VARIABLES
    accts,            \* token account address -> token account
    mints,            \* mint address -> mint
    lamports,         \* wallet -> lamports, in units of AtaRent
    overflow_checks,  \* whether the program was built with overflow checks
    last,             \* the last handler invocation: its inputs and outcome
    nOps,             \* handler invocations so far
    pc,               \* the demo client's position in main
    slot,             \* the cluster's slot
    airdrop,          \* wallet -> none | requested | confirmed
    latest_blockhash, \* main's latest_blockhash: the slot it was fetched at
    waited,           \* whether main waited on the network since that fetch
    sent,             \* transaction number -> what was submitted and its fate
    read,             \* what main read back: mint, source, destination
    stdout            \* what main printed

ledgerVars == <<accts, mints, lamports>>
programVars == <<overflow_checks, last, nOps>>
demoVars == <<pc, slot, airdrop, latest_blockhash, waited, sent, read, stdout>>
vars == <<ledgerVars, programVars, demoVars>>

Ledger == [accts |-> accts, mints |-> mints, lamports |-> lamports]

\* handler invocations in one behaviour
MaxOps == 2

\* whole-token amounts callers pass: 1 and 2^63
Amounts == {<<1>>, <<0, 0, 0, 0, 0, 0, 0, 128>>}

\* decimals a mint may declare: none or 2 for M1, and for M2 20, where
\* 10^20 is past the u64 range
DecimalsOf(mint) == IF mint = "M1" THEN {0, 2} ELSE {20}

NoIx ==
    [signer |-> NoKey, recipient |-> NoKey, mint_account |-> NoKey,
     from_account |-> NoAddr, to_account |-> NoAddr]

NoInvocation ==
    [handler |-> "none", ix |-> NoIx, amount |-> Zero, pre |-> <<>>,
     validated |-> FALSE, verr |-> "none", created |-> FALSE, panicked |-> FALSE,
     calls |-> 0, cpi |-> NoCpi, hostErr |-> "none", result |-> "none",
     logs |-> <<>>]

NotSent == [status |-> "none", blockhash |-> -1, age |-> 0, waited |-> FALSE]
NothingRead == [mint |-> UninitMint, source |-> UninitAccount,
                destination |-> UninitAccount]

DemoNotRunning ==
    /\ pc = "idle"
    /\ slot = 0
    /\ airdrop = [k \in Keys |-> "none"]
    /\ latest_blockhash = -1
    /\ waited = FALSE
    /\ sent = [n \in {1, 2} |-> NotSent]
    /\ read = NothingRead
    /\ stdout = <<>>

InitializedMint(authority, decimals, supply) ==
    [UninitMint EXCEPT !.allocated = TRUE, !.init = TRUE, !.decimals = decimals,
                       !.supply = supply, !.mint_authority = authority]

TokenAccountOf(owner, mint, amount) ==
    [UninitAccount EXCEPT !.init = TRUE, !.owner = owner, !.mint = mint,
                          !.amount = amount]

\* K1 is M1's mint authority and holds 5 whole tokens at its associated
\* address and 3 in a second account that K2 may spend as delegate; K2 is
\* M2's mint authority; no one holds M2 yet
Init ==
    \E d \in DecimalsOf("M1"), d2 \in DecimalsOf("M2") :
        /\ mints = [m \in Mints |->
               IF m = "M1"
               THEN InitializedMint("K1", d, BigMul(<<8>>, Pow10(d)))
               ELSE InitializedMint("K2", d2, Zero)]
        /\ accts = [a \in TokenAddrs |->
               IF a = get_associated_token_address("K1", "M1")
               THEN TokenAccountOf("K1", "M1", BigMul(<<5>>, Pow10(d)))
               ELSE IF a = AuxAddr
               THEN [TokenAccountOf("K1", "M1", BigMul(<<3>>, Pow10(d))) EXCEPT
                        !.delegate = "K2",
                        !.delegated_amount = BigMul(<<3>>, Pow10(d))]
               ELSE UninitAccount]
        /\ lamports = [k \in Keys |-> IF k = "K1" THEN 2 * AtaRent ELSE AtaRent]
        /\ overflow_checks \in BOOLEAN
        /\ last = NoInvocation
        /\ nOps = 0
        /\ DemoNotRunning

\* the runtime commits an instruction's writes when it returns Ok and
\* discards them all otherwise
Invoke(handler, ix, amount, out) ==
    /\ nOps < MaxOps
    /\ nOps' = nOps + 1
    /\ accts' = IF out.result = "Ok" THEN out.L.accts ELSE accts
    /\ mints' = IF out.result = "Ok" THEN out.L.mints ELSE mints
    /\ lamports' = IF out.result = "Ok" THEN out.L.lamports ELSE lamports
    /\ last' = [handler |-> handler, ix |-> ix, amount |-> amount, pre |-> Ledger,
                validated |-> out.validated, verr |-> out.verr,
                created |-> out.created, panicked |-> out.panicked,
                calls |-> out.calls, cpi |-> out.cpi, hostErr |-> out.hostErr,
                result |-> out.result, logs |-> out.logs]
    /\ UNCHANGED <<overflow_checks, demoVars>>

FromChoices(mint) == {get_associated_token_address(k, mint) : k \in Keys} \cup {AuxAddr}
ToChoices(recipient, mint) == {get_associated_token_address(recipient, mint), AuxAddr}

InvokeMintToken ==
    \E signer \in Keys, recipient \in Keys, mint \in Mints, amount \in Amounts :
      \E to \in ToChoices(recipient, mint) :
        LET ix == [signer |-> signer, recipient |-> recipient, mint_account |-> mint,
                   from_account |-> NoAddr, to_account |-> to]
        IN  Invoke("mint_token", ix, amount,
                   mint_token(Ledger, ix, amount, overflow_checks))

InvokeTransferTokens ==
    \E signer \in Keys, recipient \in Keys, mint \in Mints, amount \in Amounts :
      \E from \in FromChoices(mint), to \in ToChoices(recipient, mint) :
        LET ix == [signer |-> signer, recipient |-> recipient, mint_account |-> mint,
                   from_account |-> from, to_account |-> to]
        IN  Invoke("transfer_tokens", ix, amount,
                   transfer_tokens(Ledger, ix, amount, overflow_checks))

InvokeBurnTokens ==
    \E signer \in Keys, mint \in Mints, amount \in Amounts :
      \E from \in FromChoices(mint) :
        LET ix == [signer |-> signer, recipient |-> NoKey, mint_account |-> mint,
                   from_account |-> from, to_account |-> NoAddr]
        IN  Invoke("burn_tokens", ix, amount,
                   burn_tokens(Ledger, ix, amount, overflow_checks))

Next == InvokeMintToken \/ InvokeTransferTokens \/ InvokeBurnTokens

Spec == Init /\ [][Next]_vars

\* ----------------------------------------------------------- demo client
fee_payer == "K1"
recipient_key == "K2"
mint_key == "M1"

airdrop_lamports == 1000000000
mint_decimals == 2
mint_amount == 10000
transfer_amount == 50

source_token_address == get_associated_token_address(fee_payer, mint_key)
destination_token_address == get_associated_token_address(recipient_key, mint_key)

\* slots the model lets pass, and slots a blockhash stays valid for
MaxSlot == 4
MaxBlockhashAge == 2

create_account_instruction ==
    [op |-> "create_account", from |-> fee_payer, to |-> mint_key]
initialize_mint_instruction ==
    [op |-> "initialize_mint2", mint |-> mint_key, mint_authority |-> fee_payer,
     freeze_authority |-> fee_payer, decimals |-> mint_decimals]
create_source_ata_instruction ==
    [op |-> "create_associated_token_account", funding |-> fee_payer,
     wallet |-> fee_payer, mint |-> mint_key]
create_destination_ata_instruction ==
    [op |-> "create_associated_token_account", funding |-> fee_payer,
     wallet |-> recipient_key, mint |-> mint_key]
\* the mint amount given in whole tokens where smallest units are expected
mint_to_instruction_whole_tokens ==
    [op |-> "mint_to", mint |-> mint_key, to |-> source_token_address,
     authority |-> fee_payer, amount |-> ToBig(mint_amount \div 100)]

mint_to_instruction ==
    [op |-> "mint_to", mint |-> mint_key, to |-> source_token_address,
     authority |-> fee_payer, amount |-> ToBig(mint_amount)]
transfer_instruction ==
    [op |-> "transfer_checked", from |-> source_token_address, mint |-> mint_key,
     to |-> destination_token_address, authority |-> fee_payer,
     amount |-> ToBig(transfer_amount), decimals |-> mint_decimals]

\* Transaction::new_signed_with_payer
transaction1 ==
    [instructions |-> <<create_account_instruction, initialize_mint_instruction,
                        create_source_ata_instruction,
                        create_destination_ata_instruction, mint_to_instruction>>,
     signers |-> {fee_payer, mint_key}]
transaction2 ==
    [instructions |-> <<transfer_instruction>>, signers |-> {fee_payer}]

\* one instruction, as the program it addresses processes it
Process(L, ins, signers) ==
    CASE ins.op = "create_account" ->
             create_account(L, ins.from, ins.to, MintRent, signers)
      [] ins.op = "initialize_mint2" ->
             initialize_mint2(L, ins.mint, ins.mint_authority,
                              ins.freeze_authority, ins.decimals)
      [] ins.op = "create_associated_token_account" ->
             create_associated_token_account(L, ins.funding, ins.wallet,
                                             ins.mint, signers)
      [] ins.op = "mint_to" ->
             mint_to(L, ins.mint, ins.to, ins.authority, signers, ins.amount)
      [] ins.op = "transfer_checked" ->
             transfer_checked(L, ins.from, ins.mint, ins.to, ins.authority,
                              signers, ins.amount, ins.decimals)

\* a transaction's instructions in order; the first failure ends it and
\* nothing of it is kept
RECURSIVE Execute(_, _, _, _)
Execute(L0, L, instructions, signers) ==
    IF instructions = <<>> THEN Done(L)
    ELSE LET r == Process(L, Head(instructions), signers)
         IN  IF r.err # "Ok" THEN Fail(r.err, L0)
             ELSE Execute(L0, r.L, Tail(instructions), signers)

InitDemo ==
    /\ mints = [m \in Mints |-> UninitMint]
    /\ accts = [a \in TokenAddrs |-> UninitAccount]
    /\ lamports = [k \in Keys |-> 0]
    /\ overflow_checks = TRUE
    /\ last = NoInvocation
    /\ nOps = 0
    /\ pc = "get_latest_blockhash"
    /\ slot = 0
    /\ airdrop = [k \in Keys |-> "none"]
    /\ latest_blockhash = -1
    /\ waited = FALSE
    /\ sent = [n \in {1, 2} |-> NotSent]
    /\ read = NothingRead
    /\ stdout = <<>>

Goto(next) == pc' = next

\* client.get_latest_blockhash().await? before the airdrops and before the
\* second transaction
GetLatestBlockhash(at, next) ==
    /\ pc = at
    /\ latest_blockhash' = slot
    /\ waited' = FALSE
    /\ Goto(next)
    /\ UNCHANGED <<ledgerVars, programVars, slot, airdrop, sent, read, stdout>>

GetLatestBlockhash1 == GetLatestBlockhash("get_latest_blockhash", "request_airdrop_fee_payer")
GetLatestBlockhash2 == GetLatestBlockhash("get_latest_blockhash_2", "send_transaction_2")

\* client.request_airdrop(..).await?
RequestAirdrop(at, key, next) ==
    /\ pc = at
    /\ airdrop' = [airdrop EXCEPT ![key] = "requested"]
    /\ Goto(next)
    /\ UNCHANGED <<ledgerVars, programVars, slot, latest_blockhash, waited, sent,
                   read, stdout>>

RequestAirdropFeePayer ==
    RequestAirdrop("request_airdrop_fee_payer", fee_payer, "confirm_airdrop_fee_payer")
RequestAirdropRecipient ==
    RequestAirdrop("request_airdrop_recipient", recipient_key, "confirm_airdrop_recipient")

\* the loop left after one round whatever it answered
ConfirmAirdropOnce(at, key, next) ==
    /\ pc = at
    /\ waited' = TRUE
    /\ Goto(next)
    /\ UNCHANGED <<ledgerVars, programVars, slot, airdrop, latest_blockhash, sent,
                   read, stdout>>

\* loop { if client.confirm_transaction(..).await? { break; } }: one round;
\* a round that finds the airdrop unconfirmed takes a slot
ConfirmAirdrop(at, key, next) ==
    /\ pc = at
    /\ waited' = TRUE
    /\ IF airdrop[key] = "confirmed"
       THEN Goto(next) /\ UNCHANGED slot
       ELSE slot < MaxSlot /\ slot' = slot + 1 /\ UNCHANGED pc
    /\ UNCHANGED <<ledgerVars, programVars, airdrop, latest_blockhash, sent, read,
                   stdout>>

ConfirmAirdropFeePayer ==
    ConfirmAirdrop("confirm_airdrop_fee_payer", fee_payer, "request_airdrop_recipient")
ConfirmAirdropRecipient ==
    ConfirmAirdrop("confirm_airdrop_recipient", recipient_key,
                   "get_minimum_balance_for_rent_exemption")

\* the cluster confirms a requested airdrop
AirdropLands ==
    \E k \in Keys :
        /\ airdrop[k] = "requested"
        /\ airdrop' = [airdrop EXCEPT ![k] = "confirmed"]
        /\ lamports' = [lamports EXCEPT ![k] = @ + airdrop_lamports]
        /\ UNCHANGED <<accts, mints, programVars, pc, slot, latest_blockhash,
                       waited, sent, read, stdout>>

\* client.get_minimum_balance_for_rent_exemption(mint_space).await?
GetMinimumBalanceForRentExemption ==
    /\ pc = "get_minimum_balance_for_rent_exemption"
    /\ Goto("send_transaction_1")
    /\ UNCHANGED <<ledgerVars, programVars, slot, airdrop, latest_blockhash,
                   waited, sent, read, stdout>>

\* client.send_and_confirm_transaction(&transaction): the send
SendTransaction(at, n, next) ==
    /\ pc = at
    /\ sent' = [sent EXCEPT ![n] =
                  [status |-> "sent", blockhash |-> latest_blockhash,
                   age |-> slot - latest_blockhash, waited |-> waited]]
    /\ Goto(next)
    /\ UNCHANGED <<ledgerVars, programVars, slot, airdrop, latest_blockhash,
                   waited, read, stdout>>

SendTransaction1 == SendTransaction("send_transaction_1", 1, "confirm_transaction_1")
SendTransaction2 == SendTransaction("send_transaction_2", 2, "confirm_transaction_2")

\* the cluster processes a submitted transaction: it is dropped when its
\* blockhash is too old, and otherwise runs whole or not at all
ClusterProcesses(n, transaction) ==
    /\ sent[n].status = "sent"
    /\ IF slot - sent[n].blockhash > MaxBlockhashAge
       THEN /\ sent' = [sent EXCEPT ![n].status = "expired"]
            /\ UNCHANGED ledgerVars
       ELSE LET r == Execute(Ledger, Ledger, transaction.instructions,
                             transaction.signers)
            IN  /\ sent' = [sent EXCEPT ![n].status =
                              IF r.err = "Ok" THEN "confirmed" ELSE "failed"]
                /\ accts' = r.L.accts
                /\ mints' = r.L.mints
                /\ lamports' = r.L.lamports
    /\ UNCHANGED <<programVars, pc, slot, airdrop, latest_blockhash, waited, read,
                   stdout>>

ClusterProcesses1 == ClusterProcesses(1, transaction1)
ClusterProcesses2 == ClusterProcesses(2, transaction2)

\* client.send_and_confirm_transaction(&transaction): the wait; a round that
\* finds the transaction still in flight takes a slot
ConfirmTransaction(at, n, next) ==
    /\ pc = at
    /\ waited' = TRUE
    /\ IF sent[n].status = "confirmed" THEN Goto(next) /\ UNCHANGED slot
       ELSE IF sent[n].status = "sent"
       THEN slot < MaxSlot /\ slot' = slot + 1 /\ UNCHANGED pc
       ELSE Goto("failed") /\ UNCHANGED slot
    /\ UNCHANGED <<ledgerVars, programVars, airdrop, latest_blockhash, sent, read,
                   stdout>>

ConfirmTransaction1 ==
    ConfirmTransaction("confirm_transaction_1", 1, "get_latest_blockhash_2")
ConfirmTransaction2 ==
    ConfirmTransaction("confirm_transaction_2", 2, "get_mint_account")

\* client.get_account(&mint.pubkey()).await? and Mint::unpack
GetMintAccount ==
    /\ pc = "get_mint_account"
    /\ IF mints[mint_key].init
       THEN read' = [read EXCEPT !.mint = mints[mint_key]]
            /\ Goto("get_source_token_account")
       ELSE Goto("failed") /\ UNCHANGED read
    /\ UNCHANGED <<ledgerVars, programVars, slot, airdrop, latest_blockhash,
                   waited, sent, stdout>>

\* client.get_account(&.._token_address).await? and TokenAccount::unpack
GetTokenAccount(at, address, field, next) ==
    /\ pc = at
    /\ IF accts[address].init
       THEN read' = [read EXCEPT ![field] = accts[address]] /\ Goto(next)
       ELSE Goto("failed") /\ UNCHANGED read
    /\ UNCHANGED <<ledgerVars, programVars, slot, airdrop, latest_blockhash,
                   waited, sent, stdout>>

GetSourceTokenAccount ==
    GetTokenAccount("get_source_token_account", source_token_address, "source",
                    "get_destination_token_account")
GetDestinationTokenAccount ==
    GetTokenAccount("get_destination_token_account", destination_token_address,
                    "destination", "println")

\* the println! block
Println ==
    /\ pc = "println"
    /\ stdout' = <<[line |-> "Successfully transferred 0.50 tokens from sender to recipient"],
                   [line |-> "Mint", supply |-> read.mint.supply],
                   [line |-> "Source Token Balance", amount |-> read.source.amount],
                   [line |-> "Destination Token Balance",
                    amount |-> read.destination.amount],
                   [line |-> "Transaction Signature", transaction |-> 2]>>
    /\ Goto("done")
    /\ UNCHANGED <<ledgerVars, programVars, slot, airdrop, latest_blockhash,
                   waited, sent, read>>

\* any awaited call may come back Err, and `?` returns it from main
RpcError ==
    /\ pc \notin {"idle", "println", "done", "failed"}
    /\ Goto("failed")
    /\ UNCHANGED <<ledgerVars, programVars, slot, airdrop, latest_blockhash,
                   waited, sent, read, stdout>>

NextDemo ==
    \/ GetLatestBlockhash1
    \/ RequestAirdropFeePayer
    \/ ConfirmAirdropFeePayer
    \/ RequestAirdropRecipient
    \/ ConfirmAirdropRecipient
    \/ AirdropLands
    \/ GetMinimumBalanceForRentExemption
    \/ SendTransaction1
    \/ ClusterProcesses1
    \/ ConfirmTransaction1
    \/ GetLatestBlockhash2
    \/ SendTransaction2
    \/ ClusterProcesses2
    \/ ConfirmTransaction2
    \/ GetMintAccount
    \/ GetSourceTokenAccount
    \/ GetDestinationTokenAccount
    \/ Println
    \/ RpcError

SpecDemo == InitDemo /\ [][NextDemo]_vars

\* ---------------------------------------------------------------- claims
Invoked == last.handler # "none"

\* amount * 10^decimals over the integers, for the last invocation
ExactScaled ==
    BigMul(last.amount, Pow10(last.pre.mints[last.ix.mint_account].decimals))

CreditedTo(a, x) == accts[a].amount = BigAdd(last.pre.accts[a].amount, x)
DebitedFrom(a, x) == last.pre.accts[a].amount = BigAdd(accts[a].amount, x)

\* C1: a successful mint_token, transfer_tokens or burn_tokens forwards exactly
\* amount * 10^decimals to the host and the balances it touches change by
\* exactly that (a transfer between two different accounts)
C1_ForwardsScaledAmount ==
    (Invoked /\ last.result = "Ok") =>
        /\ last.cpi.amount = ExactScaled
        /\ last.handler = "mint_token" => CreditedTo(last.ix.to_account, ExactScaled)
        /\ (last.handler = "transfer_tokens"
              /\ last.ix.from_account # last.ix.to_account) =>
               /\ DebitedFrom(last.ix.from_account, ExactScaled)
               /\ CreditedTo(last.ix.to_account, ExactScaled)
        /\ last.handler = "burn_tokens" => DebitedFrom(last.ix.from_account, ExactScaled)

\* C2: an invocation whose account validation passes issues exactly one call
\* into the host token program
C2_ExactlyOneHostCall ==
    (Invoked /\ last.validated) => last.calls = 1

SuccessLogged ==
    \E i \in 1..Len(last.logs) :
        last.logs[i] \in {"Token minted successfully.",
                          "Tokens transferred successfully.",
                          "Tokens burned successfully."}

C4_FailedInvocationLeavesNoTrace ==
    (Invoked /\ (last.result # "Ok" \/ last.hostErr \notin {"Ok", "none"})) =>
        /\ Ledger = last.pre
        /\ last.created =>
               /\ ~accts[last.ix.to_account].init
               /\ lamports[last.ix.signer] = last.pre.lamports[last.ix.signer]

C4_Witness ==
    /\ last.handler \in {"mint_token", "transfer_tokens"}
    /\ last.created
    /\ last.calls = 1
    /\ last.hostErr \notin {"Ok", "none"}
    /\ ~accts[last.ix.to_account].init

\* C6: a transfer_tokens or burn_tokens that reaches the host call debits the
\* associated token account of (signer, mint_account), owned by the signer,
\* on the signer's authority; no invocation lowers the balance of a token
\* account whose owner did not sign
C6_OnlySignersAccountDebited ==
    Invoked =>
        /\ (last.calls >= 1 /\ last.handler \in {"transfer_tokens", "burn_tokens"}) =>
               /\ last.cpi.from =
                      get_associated_token_address(last.ix.signer, last.ix.mint_account)
               /\ last.pre.accts[last.cpi.from].owner = last.ix.signer
               /\ last.pre.accts[last.cpi.from].mint = last.ix.mint_account
               /\ last.cpi.authority = last.ix.signer
        /\ \A a \in TokenAddrs :
               BigLess(accts[a].amount, last.pre.accts[a].amount) =>
                   last.pre.accts[a].owner = last.ix.signer

C6_Witness ==
    /\ last.handler = "transfer_tokens"
    /\ last.result = "Ok"
    /\ last.ix.signer # last.ix.recipient
    /\ BigLess(accts[last.ix.from_account].amount,
               last.pre.accts[last.ix.from_account].amount)

\* C7: after a successful mint_token or transfer_tokens the recipient's
\* associated token account exists and holds its prior balance (0 when the
\* call created it) plus amount * 10^decimals (a transfer between two
\* different accounts); burn_tokens and the sender side of transfer_tokens
\* create nothing and fail when the signer's associated account is missing
C7_RecipientAccountCredited ==
    Invoked =>
        /\ (last.result = "Ok" /\ last.handler \in {"mint_token", "transfer_tokens"}
              /\ last.ix.from_account # last.ix.to_account) =>
               /\ last.ix.to_account =
                      get_associated_token_address(last.ix.recipient, last.ix.mint_account)
               /\ accts[last.ix.to_account].init
               /\ last.created <=> ~last.pre.accts[last.ix.to_account].init
               /\ CreditedTo(last.ix.to_account, ExactScaled)
        /\ (last.handler \in {"transfer_tokens", "burn_tokens"}
              /\ ~last.pre.accts[get_associated_token_address(
                      last.ix.signer, last.ix.mint_account)].init) =>
               last.result # "Ok"
        /\ last.handler = "burn_tokens" => ~last.created

\* C9: a handler forwards the product amount * 10^decimals over the integers
\* or fails without changing the ledger; it never forwards a value reduced
\* modulo 2^64
C9_NeverForwardsWrappedAmount ==
    (Invoked /\ last.validated) =>
        \/ last.calls = 1 /\ last.cpi.amount = ExactScaled
        \/ last.result # "Ok" /\ Ledger = last.pre

\* ---- demo client
Submitted(n) == sent[n].status # "none"

\* C5: the demo submits the mint-creation transaction only after both
\* airdrops are confirmed (the fee payer's requested and confirmed before the
\* recipient's is requested), the transfer only after the mint-creation
\* transaction is confirmed, prints only after the transfer is confirmed and
\* the three accounts were read, and prints nothing when a step fails
C5_DemoStepsInOrder ==
    /\ airdrop[recipient_key] # "none" => airdrop[fee_payer] = "confirmed"
    /\ Submitted(1) => \A k \in {fee_payer, recipient_key} : airdrop[k] = "confirmed"
    /\ Submitted(2) => sent[1].status = "confirmed"
    /\ stdout # <<>> =>
           /\ sent[2].status = "confirmed"
           /\ read.mint.init /\ read.source.init /\ read.destination.init
           /\ pc = "done"
    /\ pc = "failed" => stdout = <<>>

C5_Witness ==
    /\ pc = "done"
    /\ Len(stdout) = 5
    /\ sent[1].status = "confirmed"
    /\ sent[2].status = "confirmed"

\* C8: the first transaction creates and initialises the mint with 2
\* decimals, creates both associated token accounts and mints 10000 smallest
\* units to the fee payer's, all or nothing; the second moves 50; a run that
\* finishes prints source 9950, destination 50 and supply 10000, and source
\* plus destination is the supply
C8_DemoBalances ==
    /\ sent[1].status # "confirmed" =>
           /\ ~mints[mint_key].allocated
           /\ ~accts[source_token_address].init
           /\ ~accts[destination_token_address].init
    /\ sent[1].status = "confirmed" =>
           /\ mints[mint_key].init
           /\ mints[mint_key].decimals = 2
           /\ mints[mint_key].supply = ToBig(10000)
           /\ accts[source_token_address].init
           /\ accts[destination_token_address].init
    /\ (sent[1].status = "confirmed" /\ sent[2].status # "confirmed") =>
           /\ accts[source_token_address].amount = ToBig(10000)
           /\ accts[destination_token_address].amount = Zero
    /\ sent[2].status = "confirmed" =>
           /\ accts[source_token_address].amount = ToBig(9950)
           /\ accts[destination_token_address].amount = ToBig(50)
    /\ pc = "done" =>
           /\ stdout[2].supply = ToBig(10000)
           /\ stdout[3].amount = ToBig(9950)
           /\ stdout[4].amount = ToBig(50)
           /\ BigAdd(stdout[3].amount, stdout[4].amount) = stdout[2].supply

C8_Witness ==
    /\ pc = "done"
    /\ stdout[3].amount = ToBig(9950)
    /\ stdout[4].amount = ToBig(50)

\* C10: every transaction the demo submits carries a blockhash fetched after
\* all earlier network waits, and never one that has expired
C10_BlockhashFetchedAfterWaits ==
    \A n \in {1, 2} :
        Submitted(n) => (~sent[n].waited /\ sent[n].age <= MaxBlockhashAge)
====
